---- MODULE Spec2Model ----
(***************************************************************************)
(* State-machine model of stake-update-go (src/main.go): a polling agent   *)
(* that compares a validator's stake nonce on Ethereum (read from a        *)
(* subgraph) with the nonce committed on Heimdall and, when Heimdall is    *)
(* behind, invokes heimdallcli for the next nonce.                         *)
(*                                                                         *)
(* Strings are sequences of one-character strings so that strconv.Atoi,    *)
(* strconv.Itoa and big.Int.SetString are computed, not assumed.  Time is  *)
(* counted in whole seconds (Go counts nanoseconds; every duration in the  *)
(* program is a whole number of seconds).                                  *)
(***************************************************************************)
EXTENDS Integers, Sequences, FiniteSets, TLC

\* ------------------------------------------------------------------ bounds
\* number of loop iterations explored
MaxIter == 2
\* largest nonce the two ledgers report
MaxNonce == 5
\* largest number of elements in a decoded stakeUpdates list
MaxResults == 2
\* wall clock (seconds) when the process starts
Now0 == 2000

\* ------------------------------------------------------- program constants
Second == 1
Minute == 60 * Second
\* time.Sleep(1 * time.Second) on the error paths of the loop
ErrorSleep == 1
\* time.Sleep(18 * time.Second) at the normal end of an iteration
NormalSleep == 18
\* the value getHeimdallValidatorNonce returns for an unknown validator
NotFound == 0 - 1

\* ----------------------------------------------------------- conversions
DigitChars == <<"0", "1", "2", "3", "4", "5", "6", "7", "8", "9">>

IsDigit(c) == \E i \in 1..10 : DigitChars[i] = c

DigitVal(c) == (CHOOSE i \in 1..10 : DigitChars[i] = c) - 1

RECURSIVE DigitsVal(_)
DigitsVal(s) ==
  IF Len(s) = 0 THEN 0
  ELSE 10 * DigitsVal(SubSeq(s, 1, Len(s) - 1)) + DigitVal(s[Len(s)])

\* strconv.Atoi: optional sign, then one or more decimal digits
Atoi(s) ==
  LET signed == Len(s) > 0 /\ s[1] \in {"+", "-"}
      body == IF signed THEN Tail(s) ELSE s
  IN IF Len(body) = 0 \/ \E i \in 1..Len(body) : ~IsDigit(body[i])
     THEN [ok |-> FALSE, val |-> 0]
     ELSE [ok |-> TRUE,
           val |-> IF signed /\ s[1] = "-" THEN 0 - DigitsVal(body)
                   ELSE DigitsVal(body)]

RECURSIVE NatToStr(_)
NatToStr(n) ==
  IF n < 10 THEN <<DigitChars[n + 1]>>
  ELSE Append(NatToStr(n \div 10), DigitChars[(n % 10) + 1])

\* strconv.Itoa
Itoa(n) == IF n < 0 THEN <<"-">> \o NatToStr(0 - n) ELSE NatToStr(n)

\* big.NewInt(0).SetString(blockNumber, 10): the ok result
SetStringOk(s) ==
  LET signed == Len(s) > 0 /\ s[1] \in {"+", "-"}
      body == IF signed THEN Tail(s) ELSE s
  IN Len(body) > 0 /\ \A i \in 1..Len(body) : IsDigit(body[i])

\* ------------------------------------------------------- the environment
\* os.Args[1:] of the runs explored: no argument, decimal integers, and
\* strings strconv.Atoi rejects
ArgVectors ==
  { <<>>, << <<"1", "2">> >>, << <<"x">> >>, << <<>> >>, << <<"7", "a">> >> }

\* the zero value of one element of StakeUpdateResponse.Data.StakeUpdates
NoRecord ==
  [ID |-> <<>>, ValidatorID |-> <<>>, TotalStaked |-> <<>>, Block |-> <<>>,
   Nonce |-> <<>>, TransactionHash |-> <<>>, LogIndex |-> <<>>]

\* block identifiers the subgraph may return
BlockStrs == { <<"9">>, <<"x">> }

\* variant: the two values are swapped in the query text
getStakeUpdateQuery_swapped(v, n) == [validatorId |-> Itoa(n), nonce |-> Itoa(v)]

\* getStakeUpdateQuery(validatorId, nonce): the two values the query text
\* carries
getStakeUpdateQuery(v, n) == [validatorId |-> Itoa(v), nonce |-> Itoa(n)]

\* getLatestNonceQuery(validatorId)
getLatestNonceQuery(v) == [validatorId |-> Itoa(v)]

\* records the subgraph may answer a stake-update query with: the record
\* asked for, and a record of the next validator and the next nonce (the
\* code never compares the answer with the request)
RecordPool(q) ==
  { [ID |-> <<"i">>, ValidatorID |-> q.validatorId, TotalStaked |-> <<"5">>,
     Block |-> b, Nonce |-> q.nonce, TransactionHash |-> <<"a">>,
     LogIndex |-> <<"1">>] : b \in BlockStrs }
  \cup { [ID |-> <<"j">>, ValidatorID |-> Itoa(Atoi(q.validatorId).val + 1),
          TotalStaked |-> <<"6">>, Block |-> <<"9">>,
          Nonce |-> Itoa(Atoi(q.nonce).val + 1),
          TransactionHash |-> <<"b">>, LogIndex |-> <<"2">>] }

\* source nonces explored: none yet, the first, and the largest
SourceNonces == {0, 1, MaxNonce}

\* nonce fields the validator endpoint may report: negative ones (the field
\* is a Go int), the first nonce, and two at the top of the range
DestNonces == {0 - 2, 0 - 1, 0, MaxNonce - 2, MaxNonce}

\* nonce texts the latest-nonce query may return
NonceStrs == { Itoa(n) : n \in SourceNonces } \cup { <<"-", "2">>, <<"x">> }

LatestPool(q) == { [NoRecord EXCEPT !.Nonce = n] : n \in NonceStrs }

\* another event the subgraph lists after record r
Sibling(r) == [r EXCEPT !.ID = <<"k">>, !.LogIndex = <<"3">>]

RECURSIVE Repeat(_, _)
Repeat(x, n) == IF n = 0 THEN <<>> ELSE <<x>> \o Repeat(x, n - 1)

\* the decoded stakeUpdates lists of at most k elements: the empty list, and
\* a first record from the pool followed by further events (the code reads
\* the length of the list and its first element only)
Answers(pool, k) ==
  IF k = 0 THEN { <<>> }
  ELSE { <<>> } \cup { <<r>> \o Repeat(Sibling(r), n) : r \in pool, n \in 0..(k - 1) }

\* what querySubGraph followed by json.Unmarshal can produce: a transport
\* error, a body that does not decode, a well-formed body without the
\* data/stakeUpdates fields (it decodes to the empty list), or a decoded
\* stakeUpdates list
GraphResults(pool, k) ==
  { [err |-> "net", fields |-> FALSE, stakeUpdates |-> <<>>],
    [err |-> "json", fields |-> FALSE, stakeUpdates |-> <<>>],
    [err |-> "", fields |-> FALSE, stakeUpdates |-> <<>>] }
  \cup { [err |-> "", fields |-> TRUE, stakeUpdates |-> l] :
          l \in Answers(pool, k) }

\* the zero value of ValidatorResponse (only the fields the code reads)
NoResponse == [Error |-> "", Nonce |-> 0]

\* what http.Get, ioutil.ReadAll and json.Unmarshal can produce for the
\* validator endpoint
HeimdallResults ==
  { [err |-> "net", fields |-> FALSE, body |-> NoResponse],
    [err |-> "json", fields |-> FALSE, body |-> NoResponse],
    [err |-> "", fields |-> FALSE, body |-> NoResponse] }
  \cup { [err |-> "", fields |-> TRUE, body |-> [Error |-> "", Nonce |-> n]] :
          n \in DestNonces }
  \cup { [err |-> "", fields |-> TRUE,
           body |-> [Error |-> "validator not found", Nonce |-> n]] :
          n \in {0, 2} }

\* what the endpoint sent: nothing (transport error), a body that is not
\* JSON, well-formed JSON without the fields the struct expects (it decodes
\* to the zero value), or the expected envelope
BodyKind(r) ==
  IF r.err = "net" THEN "neterr"
  ELSE IF r.err = "json" THEN "badjson"
  ELSE IF ~r.fields THEN "nofields"
  ELSE "full"

\* ages (seconds) of the blocks the origin chain may report, relative to the
\* moment of the lookup; negative: a block stamped in the future
Ages == { 0 - 5, 10 * Minute - 1, 10 * Minute, 20 * Minute }

\* ------------------------------------------------------------ decisions
\* variant: the strconv.Atoi error is not checked
ArgsOutcome_unchecked(a) == IF Len(a) = 0 THEN "crashed" ELSE "dial"

\* main: os.Args[1], strconv.Atoi and the log.Fatal that follows
ArgsOutcome(a) ==
  IF Len(a) = 0 THEN "crashed"
  ELSE IF ~Atoi(a[1]).ok THEN "exited"
  ELSE "dial"

\* main: ethclient.Dial and the log.Fatal that follows
DialOutcome(ok) == IF ok THEN "source" ELSE "exited"

\* variant: a failed read of the source nonce is not fatal
SourceOutcome_continue(failed) == "loop"

\* main: the return after a failed getEthereumValidatorNonce
SourceOutcome(failed) == IF failed THEN "exited" ELSE "loop"

\* variant: the comparison is # instead of >
NeedsCorrection_ne(e, h) == e # h

\* variant: the comparison leaves a gap of one alone
NeedsCorrection_gap(e, h) == e > h + 1

\* variant: the comparison is >= instead of >
NeedsCorrection_ge(e, h) == e >= h

\* main: if ethereumNonce > heimdallNonce
NeedsCorrection(e, h) == e > h

\* variant: the step is two nonces instead of one
NextNonce_skip(h) == h + 2

\* main: the nonce handed to processStakeUpdate
NextNonce(h) == h + 1

\* variant: the error field is not looked at
HeimdallNonceOf_field(body) == body.Nonce

\* variant: the error field counts only when the nonce field is zero
HeimdallNonceOf_zero(body) ==
  IF body.Error # "" /\ body.Nonce = 0 THEN NotFound ELSE body.Nonce

\* getHeimdallValidatorNonce: the value returned for a decoded response
HeimdallNonceOf(body) == IF body.Error # "" THEN NotFound ELSE body.Nonce

\* time.Since(blockTime)
Since(t, n) == n - t

\* variant: the comparison is <= instead of <
TooYoung_le(d) == d <= Minute * 10

\* processStakeUpdate: time.Since(blockTime) < time.Minute*10
TooYoung(d) == d < Minute * 10

\* variant: every iteration ends with the short sleep
SleepFor_short(err) == ErrorSleep

\* main: the sleep that ends an iteration
SleepFor(err) == IF err THEN ErrorSleep ELSE NormalSleep

\* variant: the block-time lookup and the ten-minute check are skipped
IndexOutcome_skip(l) == IF Len(l) = 0 THEN "crashed" ELSE "submit"

\* processStakeUpdate: what response.Data.StakeUpdates[0] does
IndexOutcome(l) == IF Len(l) = 0 THEN "crashed" ELSE "blocktime"

\* variant: --id is given the record's id field
Command_id(r, chainId) ==
  [block |-> r.Block, id |-> r.ID, logIndex |-> r.LogIndex,
   nonce |-> r.Nonce, stakedAmount |-> r.TotalStaked,
   txHash |-> r.TransactionHash, chainId |-> chainId]

\* the argument vector of exec.Command("heimdallcli", ...)
Command(r, chainId) ==
  [block |-> r.Block, id |-> r.ValidatorID, logIndex |-> r.LogIndex,
   nonce |-> r.Nonce, stakedAmount |-> r.TotalStaked,
   txHash |-> r.TransactionHash, chainId |-> chainId]

\* os.Getenv("heimdall_chain_id")
HeimdallChainId == <<"h">>

\* ------------------------------------------------------------------ state
VARIABLES
  pc,             \* position of the single goroutine
  args,           \* os.Args[1:]
  validatorId,    \* main: validatorId
  ethereumNonce,  \* main: ethereumNonce
  heimdallNonce,  \* main: heimdallNonce of the current iteration
  nonce,          \* processStakeUpdate: nonce
  stakeUpdates,   \* processStakeUpdate: response.Data.StakeUpdates
  stakeUpdate,    \* processStakeUpdate: stakeUpdate
  blockTime,      \* processStakeUpdate: blockTime (Unix seconds)
  now,            \* the wall clock (Unix seconds)
  sleepDur,       \* duration of the time.Sleep being executed
  iter,           \* number of completed iterations
  startFail,      \* which startup precondition failed, "none" if none
  srcBody,        \* what the subgraph sent for the latest-nonce query
  srcReads,       \* number of latest-nonce queries sent
  dstFetch,       \* outcome of this iteration's destination fetch
  dstBody,        \* what the validator endpoint sent in this iteration
  responseData,   \* getHeimdallValidatorNonce: responseData, when decoded
  queries,        \* stake-update queries sent in this iteration
  decoded,        \* this iteration decoded a stake-update response
  blockLookups,   \* BlockByNumber calls made in this iteration
  gate,           \* outcome of this iteration's staleness check
  since,          \* time.Since(blockTime) at that check
  cmds,           \* heimdallcli invocations of this iteration
  iterErr,        \* this iteration took an error path
  prev,           \* what the previous iteration did
  latestNonce,    \* the origin chain's latest stake-update nonce
  ledger          \* the destination ledger of the gap-closure scenario

vars ==
  <<pc, args, validatorId, ethereumNonce, heimdallNonce, nonce, stakeUpdates,
    stakeUpdate, blockTime, now, sleepDur, iter, startFail, srcBody, srcReads,
    dstFetch, dstBody, responseData, queries, decoded, blockLookups, gate,
    since, cmds, iterErr, prev, latestNonce, ledger>>

\* the locals of one iteration and what the model records about it
iterVars ==
  <<heimdallNonce, nonce, stakeUpdates, stakeUpdate, blockTime, dstFetch,
    dstBody, responseData, queries, decoded, blockLookups, gate, since, cmds>>

\* the two ledgers, which the program only reads through its queries
envVars == <<latestNonce, ledger>>

IterReset ==
  /\ heimdallNonce' = 0
  /\ nonce' = 0
  /\ stakeUpdates' = <<>>
  /\ stakeUpdate' = NoRecord
  /\ blockTime' = 0
  /\ dstFetch' = "none"
  /\ dstBody' = "none"
  /\ responseData' = NoResponse
  /\ queries' = <<>>
  /\ decoded' = FALSE
  /\ blockLookups' = 0
  /\ gate' = "none"
  /\ since' = 0
  /\ cmds' = <<>>

\* no previous iteration
NoPrev == [kind |-> "none", heimdallNonce |-> 0, queries |-> <<>>]

\* what an iteration leaves behind for the next one to be compared with: an
\* iteration stopped by the ten-minute check, or one whose heimdallcli run
\* succeeded, with the destination nonce it read and the query it sent
Remembered ==
  IF gate = "blocked"
  THEN [kind |-> "blocked", heimdallNonce |-> heimdallNonce, queries |-> queries]
  ELSE IF cmds # <<>> /\ ~iterErr
  THEN [kind |-> "submitted", heimdallNonce |-> heimdallNonce, queries |-> queries]
  ELSE NoPrev

\* the process as the runtime starts it
InitProgram ==
  /\ pc = "start"
  /\ args \in ArgVectors
  /\ validatorId = 0
  /\ ethereumNonce = 0
  /\ heimdallNonce = 0
  /\ nonce = 0
  /\ stakeUpdates = <<>>
  /\ stakeUpdate = NoRecord
  /\ blockTime = 0
  /\ now = Now0
  /\ sleepDur = 0
  /\ iter = 0
  /\ startFail = "none"
  /\ srcBody = "none"
  /\ srcReads = 0
  /\ dstFetch = "none"
  /\ dstBody = "none"
  /\ responseData = NoResponse
  /\ queries = <<>>
  /\ decoded = FALSE
  /\ blockLookups = 0
  /\ gate = "none"
  /\ since = 0
  /\ cmds = <<>>
  /\ iterErr = FALSE
  /\ prev = NoPrev

Init ==
  /\ InitProgram
  /\ latestNonce = 0
  /\ ledger = [nonce |-> 0, applied |-> 0]

\* the iteration ends: main prints the error (if any) and sleeps
EndIteration(err) ==
  /\ pc' = "sleep"
  /\ sleepDur' = SleepFor(err)
  /\ iterErr' = err

\* ------------------------------------------------------------------ steps
\* The steps of the program.  A step that talks to the outside takes the
\* answer as its parameter; none of them constrains envVars.

\* main: read and parse the validator id argument
ParseArgsStep ==
  /\ pc = "start"
  /\ pc' = ArgsOutcome(args)
  /\ validatorId' = IF Len(args) > 0 THEN Atoi(args[1]).val ELSE 0
  /\ startFail' = IF Len(args) = 0 THEN "noarg"
                  ELSE IF ~Atoi(args[1]).ok THEN "badarg"
                  ELSE "none"
  /\ UNCHANGED <<args, ethereumNonce, now, sleepDur, iter, iterErr, srcBody,
                 srcReads, prev>>
  /\ UNCHANGED iterVars

\* main: connect the origin-chain client
DialStep(ok) ==
  /\ pc = "dial"
  /\ pc' = DialOutcome(ok)
  /\ startFail' = IF ok THEN "none" ELSE "dial"
  /\ UNCHANGED <<args, validatorId, ethereumNonce, now, sleepDur, iter,
                 iterErr, srcBody, srcReads, prev>>
  /\ UNCHANGED iterVars

\* getEthereumValidatorNonce, and main's return when it fails
SourceStep(r) ==
  /\ pc = "source"
  /\ LET l == r.stakeUpdates
         parsed == IF Len(l) = 0 THEN [ok |-> TRUE, val |-> 0]
                   ELSE Atoi(l[1].Nonce)
         failed == r.err # "" \/ ~parsed.ok
     IN /\ pc' = SourceOutcome(failed)
        /\ ethereumNonce' = IF failed THEN 0 ELSE parsed.val
        /\ startFail' = IF failed THEN "source" ELSE "none"
  /\ srcBody' = BodyKind(r)
  /\ srcReads' = srcReads + 1
  /\ UNCHANGED <<args, validatorId, now, sleepDur, iter, iterErr, prev>>
  /\ UNCHANGED iterVars

\* getHeimdallValidatorNonce, and main's handling of its error
HeimdallStep(r) ==
  /\ pc = "loop"
  /\ dstBody' = BodyKind(r)
  /\ IF r.err # ""
     THEN /\ dstFetch' = "err"
          /\ EndIteration(TRUE)
          /\ UNCHANGED <<heimdallNonce, responseData>>
     ELSE /\ dstFetch' = "ok"
          /\ responseData' = r.body
          /\ heimdallNonce' = HeimdallNonceOf(r.body)
          /\ pc' = "compare"
          /\ UNCHANGED <<sleepDur, iterErr>>
  /\ UNCHANGED <<args, validatorId, ethereumNonce, nonce, stakeUpdates,
                 stakeUpdate, blockTime, now, iter, startFail, srcBody,
                 srcReads, queries, decoded, blockLookups, gate, since, cmds,
                 prev>>

\* variant: a nonce submitted in the previous iteration is not tried again
CompareStep_once ==
  /\ pc = "compare"
  /\ IF /\ NeedsCorrection(ethereumNonce, heimdallNonce)
        /\ ~(prev.kind = "submitted" /\ prev.heimdallNonce = heimdallNonce)
     THEN /\ pc' = "query"
          /\ nonce' = NextNonce(heimdallNonce)
          /\ UNCHANGED <<sleepDur, iterErr>>
     ELSE /\ EndIteration(FALSE)
          /\ UNCHANGED nonce
  /\ UNCHANGED <<args, validatorId, ethereumNonce, heimdallNonce, stakeUpdates,
                 stakeUpdate, blockTime, now, iter, startFail, srcBody,
                 srcReads, dstFetch, dstBody, responseData, queries, decoded,
                 blockLookups, gate, since, cmds, prev>>

\* main: compare the two nonces
CompareStep ==
  /\ pc = "compare"
  /\ IF NeedsCorrection(ethereumNonce, heimdallNonce)
     THEN /\ pc' = "query"
          /\ nonce' = NextNonce(heimdallNonce)
          /\ UNCHANGED <<sleepDur, iterErr>>
     ELSE /\ EndIteration(FALSE)
          /\ UNCHANGED nonce
  /\ UNCHANGED <<args, validatorId, ethereumNonce, heimdallNonce, stakeUpdates,
                 stakeUpdate, blockTime, now, iter, startFail, srcBody,
                 srcReads, dstFetch, dstBody, responseData, queries, decoded,
                 blockLookups, gate, since, cmds, prev>>

\* processStakeUpdate: query the subgraph and decode the answer
QueryStep(r) ==
  /\ pc = "query"
  /\ queries' = Append(queries, getStakeUpdateQuery(validatorId, nonce))
  /\ IF r.err # ""
     THEN /\ EndIteration(TRUE)
          /\ UNCHANGED <<stakeUpdates, decoded>>
     ELSE /\ stakeUpdates' = r.stakeUpdates
          /\ decoded' = TRUE
          /\ pc' = "index"
          /\ UNCHANGED <<sleepDur, iterErr>>
  /\ UNCHANGED <<args, validatorId, ethereumNonce, heimdallNonce, nonce,
                 stakeUpdate, blockTime, now, iter, startFail, srcBody,
                 srcReads, dstFetch, dstBody, responseData, blockLookups, gate,
                 since, cmds, prev>>

\* processStakeUpdate: stakeUpdate := response.Data.StakeUpdates[0]
IndexStep ==
  /\ pc = "index"
  /\ pc' = IndexOutcome(stakeUpdates)
  /\ stakeUpdate' = IF Len(stakeUpdates) = 0 THEN stakeUpdate
                    ELSE stakeUpdates[1]
  /\ UNCHANGED <<args, validatorId, ethereumNonce, heimdallNonce, nonce,
                 stakeUpdates, blockTime, now, sleepDur, iter, startFail,
                 srcBody, srcReads, dstFetch, dstBody, responseData, queries,
                 decoded, blockLookups, gate, since, cmds, iterErr, prev>>

\* getBlockTime, and processStakeUpdate's handling of its error; found: the
\* client returned the block, and then age is how old its timestamp is
BlockTimeStep(found, age) ==
  /\ pc = "blocktime"
  /\ IF ~SetStringOk(stakeUpdate.Block)
     THEN /\ EndIteration(TRUE)
          /\ UNCHANGED <<blockTime, blockLookups>>
     ELSE /\ blockLookups' = blockLookups + 1
          /\ IF ~found
             THEN /\ EndIteration(TRUE)
                  /\ UNCHANGED blockTime
             ELSE /\ blockTime' = now - age
                  /\ pc' = "gate"
                  /\ UNCHANGED <<sleepDur, iterErr>>
  /\ UNCHANGED <<args, validatorId, ethereumNonce, heimdallNonce, nonce,
                 stakeUpdates, stakeUpdate, now, iter, startFail, srcBody,
                 srcReads, dstFetch, dstBody, responseData, queries, decoded,
                 gate, since, cmds, prev>>

\* processStakeUpdate: the ten-minute check
GateStep ==
  /\ pc = "gate"
  /\ since' = Since(blockTime, now)
  /\ IF TooYoung(Since(blockTime, now))
     THEN /\ gate' = "blocked"
          /\ EndIteration(FALSE)
     ELSE /\ gate' = "passed"
          /\ pc' = "submit"
          /\ UNCHANGED <<sleepDur, iterErr>>
  /\ UNCHANGED <<args, validatorId, ethereumNonce, heimdallNonce, nonce,
                 stakeUpdates, stakeUpdate, blockTime, now, iter, startFail,
                 srcBody, srcReads, dstFetch, dstBody, responseData, queries,
                 decoded, blockLookups, cmds, prev>>

\* processStakeUpdate: run heimdallcli
SubmitStep(failed) ==
  /\ pc = "submit"
  /\ cmds' = Append(cmds, Command(stakeUpdate, HeimdallChainId))
  /\ EndIteration(failed)
  /\ UNCHANGED <<args, validatorId, ethereumNonce, heimdallNonce, nonce,
                 stakeUpdates, stakeUpdate, blockTime, now, iter, startFail,
                 srcBody, srcReads, dstFetch, dstBody, responseData, queries,
                 decoded, blockLookups, gate, since, prev>>

\* variant: the source nonce is read again before every iteration
SleepStep_refresh ==
  /\ pc = "sleep"
  /\ iter < MaxIter
  /\ now' = now + sleepDur
  /\ iter' = iter + 1
  /\ pc' = "loop"
  /\ sleepDur' = 0
  /\ iterErr' = FALSE
  /\ prev' = Remembered
  /\ IterReset
  /\ ethereumNonce' = latestNonce
  /\ UNCHANGED <<args, validatorId, startFail, srcBody, srcReads>>

\* main: time.Sleep returns and the next iteration begins
SleepStep ==
  /\ pc = "sleep"
  /\ iter < MaxIter
  /\ now' = now + sleepDur
  /\ iter' = iter + 1
  /\ pc' = "loop"
  /\ sleepDur' = 0
  /\ iterErr' = FALSE
  /\ prev' = Remembered
  /\ IterReset
  /\ UNCHANGED <<args, validatorId, ethereumNonce, startFail, srcBody,
                 srcReads>>

\* ---------------------------------------------------------------- actions
\* The program against endpoints that may answer anything.
ParseArgs == ParseArgsStep /\ UNCHANGED envVars

Dial == (\E ok \in BOOLEAN : DialStep(ok)) /\ UNCHANGED envVars

getEthereumValidatorNonce ==
  /\ \E r \in GraphResults(LatestPool(getLatestNonceQuery(validatorId)), 1) :
       SourceStep(r)
  /\ latestNonce' = ethereumNonce'
  /\ UNCHANGED ledger

getHeimdallValidatorNonce ==
  (\E r \in HeimdallResults : HeimdallStep(r)) /\ UNCHANGED envVars

Compare == CompareStep /\ UNCHANGED envVars

QueryRecord ==
  /\ \E r \in GraphResults(RecordPool(getStakeUpdateQuery(validatorId, nonce)),
                           MaxResults) : QueryStep(r)
  /\ UNCHANGED envVars

IndexRecord == IndexStep /\ UNCHANGED envVars

getBlockTime ==
  /\ \/ BlockTimeStep(FALSE, 0)
     \/ \E a \in Ages : BlockTimeStep(TRUE, a)
  /\ UNCHANGED envVars

StalenessGate == GateStep /\ UNCHANGED envVars

Submit == (\E failed \in BOOLEAN : SubmitStep(failed)) /\ UNCHANGED envVars

Sleep == SleepStep /\ UNCHANGED envVars

\* the origin chain records another stake update of the validator while the
\* loop runs
OriginAdvance ==
  /\ pc \in {"loop", "compare", "query", "index", "blocktime", "gate",
             "submit", "sleep"}
  /\ latestNonce = ethereumNonce
  /\ latestNonce' = latestNonce + 1
  /\ UNCHANGED <<pc, args, validatorId, ethereumNonce, now, sleepDur, iter,
                 startFail, srcBody, srcReads, iterErr, prev, ledger>>
  /\ UNCHANGED iterVars

Next ==
  \/ ParseArgs
  \/ Dial
  \/ getEthereumValidatorNonce
  \/ getHeimdallValidatorNonce
  \/ Compare
  \/ QueryRecord
  \/ IndexRecord
  \/ getBlockTime
  \/ StalenessGate
  \/ Submit
  \/ Sleep
  \/ OriginAdvance

Spec == Init /\ [][Next]_vars

\* ------------------------------------------------------ the closure scenario
\* The same program against endpoints that always answer, and truthfully:
\* the subgraph reports the origin chain's latest nonce and exactly the
\* record asked for, every block is at least ten minutes old, heimdallcli
\* succeeds, and the destination ledger applies each submitted update before
\* it is read again.
InitClosure ==
  /\ InitProgram
  /\ latestNonce \in 0..MaxNonce
  /\ ledger \in { [nonce |-> d, applied |-> 0] :
                  d \in { n \in 0..latestNonce : latestNonce - n <= MaxIter } }

\* the record the subgraph holds for a query
TrueRecord(q) ==
  [ID |-> <<"i">>, ValidatorID |-> q.validatorId, TotalStaked |-> <<"5">>,
   Block |-> <<"9">>, Nonce |-> q.nonce, TransactionHash |-> <<"a">>,
   LogIndex |-> <<"1">>]

DialOk == DialStep(TRUE) /\ UNCHANGED envVars

SourceOk ==
  /\ SourceStep([err |-> "", fields |-> TRUE,
                 stakeUpdates |-> << [NoRecord EXCEPT !.Nonce = Itoa(latestNonce)] >>])
  /\ UNCHANGED envVars

HeimdallOk ==
  /\ HeimdallStep([err |-> "", fields |-> TRUE,
                   body |-> [Error |-> "", Nonce |-> ledger.nonce]])
  /\ UNCHANGED envVars

QueryOk ==
  /\ QueryStep([err |-> "", fields |-> TRUE,
                stakeUpdates |-> << TrueRecord(getStakeUpdateQuery(validatorId, nonce)) >>])
  /\ UNCHANGED envVars

BlockTimeOk ==
  /\ \E a \in { x \in Ages : x >= 10 * Minute } : BlockTimeStep(TRUE, a)
  /\ UNCHANGED envVars

SubmitOk ==
  /\ SubmitStep(FALSE)
  /\ ledger' = [nonce |-> ledger.nonce + 1, applied |-> ledger.applied + 1]
  /\ UNCHANGED latestNonce

NextClosure ==
  \/ ParseArgs
  \/ DialOk
  \/ SourceOk
  \/ HeimdallOk
  \/ Compare
  \/ QueryOk
  \/ IndexRecord
  \/ BlockTimeOk
  \/ StalenessGate
  \/ SubmitOk
  \/ Sleep

\* the loop is one sequential thread whose blocking calls all return, so a
\* step that is possible is eventually taken
SpecClosure == InitClosure /\ [][NextClosure]_vars /\ WF_vars(NextClosure)

\* ------------------------------------------------------------ properties
\* positions inside one iteration of the loop, before its sleep
IterPcs == {"loop", "compare", "query", "index", "blocktime", "gate", "submit"}

\* the process has ended
Terminated == pc \in {"exited", "crashed"}

\* this iteration decoded a destination response
DstKnown == dstFetch = "ok"

\* this iteration decoded a destination response with a non-empty error field
DstUnknownValidator == dstFetch = "ok" /\ responseData.Error # ""

\* a text is a decimal integer: an optional sign and at least one digit
IsDecimalInteger(s) ==
  \/ /\ Len(s) >= 1
     /\ \A i \in 1..Len(s) : s[i] \in {"0", "1", "2", "3", "4", "5", "6", "7", "8", "9"}
  \/ /\ Len(s) >= 2
     /\ s[1] \in {"+", "-"}
     /\ \A i \in 2..Len(s) : s[i] \in {"0", "1", "2", "3", "4", "5", "6", "7", "8", "9"}

\* C1: in an iteration whose fetched destination nonce d satisfies s <= d,
\* no stake-update record is fetched, no block time is looked up, the
\* submitter is not invoked, and the iteration ends with the 18-second sleep.
C1_NoOpWhenNotBehind ==
  (DstKnown /\ ethereumNonce <= heimdallNonce) =>
    /\ queries = <<>>
    /\ blockLookups = 0
    /\ cmds = <<>>
    /\ pc \in {"compare", "sleep"}
    /\ (pc = "sleep" => sleepDur = 18)

C1_Witness ==
  /\ DstKnown
  /\ heimdallNonce >= 0
  /\ ethereumNonce = heimdallNonce
  /\ pc = "sleep"

\* C2: in an iteration with s > d the only nonce queried is d+1, whatever
\* the gap, the query is sent at most once and the submitter is invoked at
\* most once.
C2_OnlyNextNonce ==
  (DstKnown /\ ethereumNonce > heimdallNonce /\ pc # "compare") =>
    /\ nonce = heimdallNonce + 1
    /\ Len(queries) <= 1
    /\ \A i \in 1..Len(queries) : queries[i].nonce = Itoa(heimdallNonce + 1)
    /\ (pc # "query" => Len(queries) = 1)
    /\ Len(cmds) <= 1

C2_Witness ==
  /\ DstKnown
  /\ ethereumNonce - heimdallNonce >= 2
  /\ Len(queries) = 1
  /\ Len(cmds) = 1

\* C3: when the decoded stakeUpdates list has zero or more than one element
\* the lookup fails: no record is used, no block time is looked up, the
\* submitter is not invoked and the iteration ends as an error.
C3_NotExactlyOneFails ==
  (decoded /\ Len(stakeUpdates) # 1) =>
    /\ pc \in {"index", "sleep"}
    /\ (pc = "sleep" => iterErr /\ sleepDur = 1)
    /\ stakeUpdate = NoRecord
    /\ blockLookups = 0
    /\ cmds = <<>>

\* C4: once the loop is entered the process never ends, and every iteration
\* that failed is in its 1-second sleep.
C4_LoopNeverTerminates ==
  /\ (Terminated => startFail # "none")
  /\ (iterErr => pc = "sleep" /\ sleepDur = 1)

\* C5: in an iteration in which the destination reports the validator as
\* unknown, the submitter is never invoked.
C5_NoCorrectionWhileUnknown == DstUnknownValidator => cmds = <<>>

\* C5 (amended): in an iteration in which the destination reports the
\* validator as unknown the destination nonce is -1; for a source nonce
\* s >= 0 the correction for nonce 0 is attempted: nonce 0 is the only nonce
\* queried, and the submitter is invoked at most once, only for the first
\* record returned and only after the ten-minute check passed.
C5_UnknownTargetsNonceZero ==
  (DstUnknownValidator /\ ethereumNonce >= 0) =>
    /\ heimdallNonce = 0 - 1
    /\ (pc # "compare" => nonce = 0)
    /\ (pc \notin {"compare", "query"} => Len(queries) = 1)
    /\ \A i \in 1..Len(queries) : queries[i].nonce = <<"0">>
    /\ Len(cmds) <= 1
    /\ (cmds # <<>> =>
          /\ gate = "passed"
          /\ Len(stakeUpdates) >= 1
          /\ cmds[1].nonce = stakeUpdates[1].Nonce)

C5_Witness ==
  /\ DstUnknownValidator
  /\ ethereumNonce >= 0
  /\ Len(cmds) = 1
  /\ queries[1].nonce = <<"0">>

\* C6: with a non-empty error field the destination nonce is -1 and, for
\* s >= 0, the record for nonce 0 is queried; when the answer holds no
\* record the iteration ends as an error with the 1-second sleep.
C6_UnknownRetriesAfterOneSecond ==
  (DstUnknownValidator /\ ethereumNonce >= 0) =>
    /\ heimdallNonce = 0 - 1
    /\ (pc \notin {"compare", "query"} => queries = << [validatorId |-> Itoa(validatorId), nonce |-> <<"0">>] >>)
    /\ (decoded /\ stakeUpdates = <<>> /\ pc # "index" =>
          pc = "sleep" /\ sleepDur = 1)

\* C7: the ten-minute check blocks exactly when now - blockTime is less than
\* 600 seconds and passes from 600 seconds on, and the submitter is invoked
\* only for a block at least 600 seconds old at the check.
C7_StalenessGate ==
  /\ (gate = "blocked" => since < 600 /\ cmds = <<>>)
  /\ (gate = "passed" => since >= 600)
  /\ (gate # "none" => since = now - blockTime)
  /\ (cmds # <<>> => gate = "passed" /\ now - blockTime >= 600)

C7_Witness ==
  /\ gate = "passed"
  /\ now - blockTime = 600
  /\ Len(cmds) = 1

\* C8: for a decoded destination response the result is the sentinel -1 if
\* and only if the error field is non-empty, and with an empty error field
\* it is the nonce field.
C8_SentinelIffError ==
  DstKnown =>
    /\ (heimdallNonce = 0 - 1 <=> responseData.Error # "")
    /\ (responseData.Error = "" => heimdallNonce = responseData.Nonce)

\* C8 (amended): for a decoded destination response the result is -1
\* whenever the error field is non-empty, whatever the nonce field holds,
\* and the nonce field itself when the error field is empty; the result is
\* therefore -1 if and only if the error field is non-empty or the nonce
\* field is -1.
C8_SentinelIffErrorOrMinusOne ==
  DstKnown =>
    /\ (responseData.Error # "" => heimdallNonce = 0 - 1)
    /\ (responseData.Error = "" => heimdallNonce = responseData.Nonce)
    /\ (heimdallNonce = 0 - 1 <=>
          (responseData.Error # "" \/ responseData.Nonce = 0 - 1))

C8_Witness ==
  /\ DstKnown
  /\ responseData.Error # ""
  /\ responseData.Nonce = 2
  /\ heimdallNonce = 0 - 1

\* C9: every iteration ends with one sleep before the next one begins, of 18
\* seconds when it ended without error and of 1 second when it ended with
\* one.
C9_OneSleepPerIteration ==
  [][/\ (pc \in IterPcs /\ pc' \notin IterPcs) =>
          (pc' = "sleep" /\ sleepDur' = IF iterErr' THEN 1 ELSE 18)
     /\ (pc' = "loop" /\ iter' > 0) => (pc = "sleep" /\ now' = now + sleepDur)]_vars

\* C10: when the validator id argument is missing or is not a decimal
\* integer, or the origin-chain client cannot be connected, the process ends
\* before the loop: no destination fetch, no record query and no submitter
\* invocation happens.
C10_StartupFailuresAreFatal ==
  (pc # "start" /\ (\/ Len(args) = 0
                    \/ (Len(args) > 0 /\ ~IsDecimalInteger(args[1]))
                    \/ startFail = "dial")) =>
    /\ Terminated
    /\ iter = 0
    /\ dstFetch = "none"
    /\ queries = <<>>
    /\ blockLookups = 0
    /\ cmds = <<>>

C10_Witness ==
  /\ pc = "exited"
  /\ Len(args) = 1
  /\ ~IsDecimalInteger(args[1])

\* C11: whenever heimdallcli is run, its arguments are the fields of the
\* record taken from this iteration's answer, unchanged, with the configured
\* chain id; with source nonce 5, destination nonce 3 and a block 20 minutes
\* old the record for nonce 4 is queried and heimdallcli is run once.
C11_ArgsAreRecordFields ==
  /\ cmds # <<>> =>
       /\ Len(cmds) = 1
       /\ decoded
       /\ Len(stakeUpdates) >= 1
       /\ cmds[1].block = stakeUpdates[1].Block
       /\ cmds[1].id = stakeUpdates[1].ValidatorID
       /\ cmds[1].logIndex = stakeUpdates[1].LogIndex
       /\ cmds[1].nonce = stakeUpdates[1].Nonce
       /\ cmds[1].stakedAmount = stakeUpdates[1].TotalStaked
       /\ cmds[1].txHash = stakeUpdates[1].TransactionHash
       /\ cmds[1].chainId = <<"h">>
  /\ (DstKnown /\ ethereumNonce = 5 /\ heimdallNonce = 3
        /\ gate # "none" /\ since = 1200) =>
       /\ queries = << [validatorId |-> Itoa(validatorId), nonce |-> <<"4">>] >>
       /\ pc \in {"submit", "sleep"}
       /\ (pc = "sleep" => Len(cmds) = 1)

C11_Witness ==
  /\ DstKnown
  /\ ethereumNonce = 5
  /\ heimdallNonce = 3
  /\ since = 1200
  /\ Len(stakeUpdates) = 1
  /\ Len(cmds) = 1
  /\ cmds[1].nonce = <<"4">>

\* C12: an iteration stopped by the ten-minute check runs no heimdallcli,
\* is not an error and ends with the 18-second sleep; the next iteration, if
\* it reads the same destination nonce, sends the same query for d+1 again.
C12_BlockedIsDeferred ==
  /\ gate = "blocked" =>
       /\ cmds = <<>>
       /\ pc = "sleep"
       /\ ~iterErr
       /\ sleepDur = 18
  /\ (prev.kind = "blocked" /\ DstKnown /\ heimdallNonce = prev.heimdallNonce
        /\ pc # "compare") =>
       /\ nonce = prev.heimdallNonce + 1
       /\ (pc # "query" => queries = prev.queries)

C12_Witness ==
  /\ prev.kind = "blocked"
  /\ DstKnown
  /\ heimdallNonce = prev.heimdallNonce
  /\ queries # <<>>
  /\ queries = prev.queries

\* C13: the source nonce is read once, before the loop, and nothing in the
\* loop changes it, also when the origin chain's latest nonce has grown.
C13_SourceNonceFixed ==
  /\ [][pc \notin {"start", "dial", "source"} =>
          (ethereumNonce' = ethereumNonce /\ srcReads' = srcReads)]_vars
  /\ [](srcReads <= 1)
  /\ [](pc \in IterPcs \cup {"sleep"} => srcReads = 1)

C13_Witness ==
  /\ iter >= 1
  /\ pc = "compare"
  /\ srcReads = 1
  /\ latestNonce > ethereumNonce

\* C14: in the closure scenario, from a destination nonce d below the source
\* nonce s the destination nonce eventually equals s; the number of
\* submissions is the number of nonces gained, and once the nonces are equal
\* nothing more is submitted.
C14_GapCloses ==
  /\ (pc = "loop" /\ iter = 0 /\ ledger.nonce < ethereumNonce)
       ~> (ledger.nonce = ethereumNonce)
  /\ [][ledger'.nonce - ledger'.applied = ledger.nonce - ledger.applied]_vars
  /\ [][(pc \in IterPcs \cup {"sleep"} /\ ledger.nonce = ethereumNonce) =>
          (ledger' = ledger /\ Len(cmds') <= Len(cmds))]_vars

C14_Witness ==
  /\ ledger.nonce = ethereumNonce
  /\ ledger.applied >= 2
  /\ pc = "sleep"
  /\ cmds = <<>>

\* the order of the steps of one iteration
StepOrd ==
  [loop |-> 1, compare |-> 2, query |-> 3, index |-> 4, blocktime |-> 5,
   gate |-> 6, submit |-> 7, sleep |-> 8]

\* C15: the steps of an iteration happen in the order destination fetch,
\* comparison, record fetch, block time, ten-minute check, heimdallcli,
\* sleep, each at most once; heimdallcli runs only after all the earlier
\* steps succeeded and the check passed, and a failed step is followed by no
\* later step but the sleep.
C15_StepOrder ==
  /\ [][(pc \in DOMAIN StepOrd /\ pc' \in DOMAIN StepOrd /\ pc' # pc) =>
          IF pc = "sleep" THEN pc' = "loop" ELSE StepOrd[pc'] > StepOrd[pc]]_vars
  /\ [](Len(queries) <= 1 /\ blockLookups <= 1 /\ Len(cmds) <= 1)
  /\ [](queries # <<>> => dstFetch = "ok")
  /\ [](blockLookups > 0 => decoded /\ queries # <<>>)
  /\ [](gate # "none" => blockLookups = 1)
  /\ [](cmds # <<>> => gate = "passed")
  /\ [](dstFetch = "err" => pc = "sleep")
  /\ []((queries # <<>> /\ ~decoded) => pc = "sleep")
  /\ []((pc = "sleep" /\ iterErr /\ cmds = <<>>) => gate = "none")

C15_Witness ==
  /\ pc = "sleep"
  /\ dstFetch = "ok"
  /\ decoded
  /\ blockLookups = 1
  /\ gate = "passed"
  /\ Len(cmds) = 1

\* C16: both nonce fetches return an error for a transport error, for a body
\* that does not decode and for well-formed JSON without the expected
\* fields.
C16_MalformedIsError ==
  /\ srcBody \in {"neterr", "badjson", "nofields"} =>
       (startFail = "source" /\ pc = "exited")
  /\ dstBody \in {"neterr", "badjson", "nofields"} => dstFetch = "err"

\* C17: when the startup read of the source nonce fails the process ends
\* without retrying and without entering the loop.
C17_SourceFailureIsFinal ==
  (startFail = "source" \/ srcBody \in {"neterr", "badjson"}) =>
    /\ pc = "exited"
    /\ srcReads = 1
    /\ iter = 0
    /\ dstFetch = "none"
    /\ queries = <<>>
    /\ blockLookups = 0
    /\ cmds = <<>>

C17_Witness ==
  /\ pc = "exited"
  /\ srcBody = "neterr"
  /\ srcReads = 1

\* C18: every nonce the agent queries lies in 0..s, s being the source nonce
\* read at startup.
C18_TargetsWithinSource ==
  \A i \in 1..Len(queries) :
    /\ Atoi(queries[i].nonce).val >= 0
    /\ Atoi(queries[i].nonce).val <= ethereumNonce

\* C18 (amended): every nonce the agent queries is d+1 for the destination
\* nonce d of that iteration and is at most s, also when the origin chain's
\* latest nonce has grown beyond s; it is at least 0 whenever d >= -1.
C18_TargetsAtMostSource ==
  \A i \in 1..Len(queries) :
    /\ Atoi(queries[i].nonce).ok
    /\ Atoi(queries[i].nonce).val = heimdallNonce + 1
    /\ Atoi(queries[i].nonce).val <= ethereumNonce
    /\ (heimdallNonce >= 0 - 1 => Atoi(queries[i].nonce).val >= 0)

C18_Witness ==
  /\ Len(queries) = 1
  /\ Atoi(queries[1].nonce).val = ethereumNonce
  /\ latestNonce > ethereumNonce

\* C19: whether a correction is attempted, and for which nonce, depends only
\* on the startup source nonce and on the destination nonce read in the
\* iteration; after a successful submission, an iteration that reads the
\* same destination nonce again sends the same query and, when the check
\* passes, runs heimdallcli again.
C19_NoMemory ==
  /\ (DstKnown /\ pc # "compare") =>
       /\ (ethereumNonce > heimdallNonce <=> ~(pc = "sleep" /\ queries = <<>>))
       /\ (ethereumNonce > heimdallNonce => nonce = heimdallNonce + 1)
  /\ (prev.kind = "submitted" /\ DstKnown /\ heimdallNonce = prev.heimdallNonce
        /\ pc \notin {"compare", "query"}) =>
       /\ queries = prev.queries
       /\ (gate = "passed" /\ pc = "sleep" => Len(cmds) = 1)

C19_Witness ==
  /\ prev.kind = "submitted"
  /\ DstKnown
  /\ heimdallNonce = prev.heimdallNonce
  /\ queries = prev.queries
  /\ Len(cmds) = 1
  /\ ~iterErr
  /\ pc = "sleep"

\* C20: whenever heimdallcli is run in an iteration that read destination
\* nonce d, its nonce argument is d+1 and its validator id argument is the
\* process's validator id, whatever record the subgraph returned.
C20_ArgsMatchRequest ==
  cmds # <<>> =>
    /\ cmds[1].nonce = Itoa(heimdallNonce + 1)
    /\ cmds[1].id = Itoa(validatorId)

\* C20 (amended): whenever heimdallcli is run, its nonce and validator id
\* arguments are the nonce and validatorId fields of the returned record;
\* they are d+1 and the process's validator id whenever that record carries
\* the validator id and nonce of the query.
C20_ArgsMatchRecord ==
  cmds # <<>> =>
    /\ cmds[1].nonce = stakeUpdate.Nonce
    /\ cmds[1].id = stakeUpdate.ValidatorID
    /\ Len(queries) = 1
    /\ (stakeUpdate.Nonce = queries[1].nonce
          /\ stakeUpdate.ValidatorID = queries[1].validatorId) =>
         /\ cmds[1].nonce = Itoa(heimdallNonce + 1)
         /\ cmds[1].id = Itoa(validatorId)

C20_Witness ==
  /\ Len(cmds) = 1
  /\ heimdallNonce >= 1
  /\ cmds[1].nonce = Itoa(heimdallNonce + 1)
  /\ cmds[1].id = Itoa(validatorId)

====
